---- MODULE Spec2Model ----
(***************************************************************************)
(* A model of src/app.ts: the issue scraper's run (processIssues), the     *)
(* fetcher (Issue.fetchAllRelatedData, Issue.fetchAssociatedPRs,           *)
(* Issue.fetchPrData) and the deduplicating aggregation into the two       *)
(* output lists.                                                           *)
(*                                                                         *)
(* The program is one JavaScript thread.  An async function runs without   *)
(* interruption up to its next await of an external call; the completion   *)
(* of an external call is one step of the model and runs the continuation  *)
(* up to the next such await.  Identifiers and bodies are sequences of     *)
(* one-character strings, so that String.prototype.includes is computed.   *)
(* The text columns (plaintext, markdown, embedding) are not carried: no    *)
(* control flow depends on them.                                           *)
(***************************************************************************)
EXTENDS Integers, Sequences, FiniteSets, TLC

(* ------------------------------ bounds --------------------------------- *)

\* the longest seed list read from devpool-issues.json
MaxSeeds == 2

(* --------------------------- pure helpers ------------------------------ *)

\* String.prototype.includes: sub occurs in s as a contiguous substring
Includes(s, sub) ==
    \E i \in 0..(Len(s) - Len(sub)) : SubSeq(s, i + 1, i + Len(sub)) = sub

Digit(d) == <<"0", "1", "2", "3", "4", "5", "6", "7", "8", "9">>[d + 1]

\* the decimal rendering of a number inside a template literal
RECURSIVE NumStr(_)
NumStr(n) == IF n < 10 THEN <<Digit(n)>>
             ELSE NumStr(n \div 10) \o <<Digit(n % 10)>>

\* a body is a string or null
Text(t) == [isNull |-> FALSE, text |-> t]
NullBody == [isNull |-> TRUE, text |-> <<>>]

\* JavaScript falsiness of a body: null or the empty string
Falsy(b) == b.isNull \/ b.text = <<>>

RECURSIVE Flatten(_)
Flatten(ss) == IF ss = <<>> THEN <<>> ELSE Head(ss) \o Flatten(Tail(ss))

Range(s) == { s[i] : i \in 1..Len(s) }

(* ------------------- the repository on GitHub (input) ------------------ *)

IssueUrl(n) == <<"i", "/">> \o NumStr(n)
PullUrl(n) == <<"p", "/">> \o NumStr(n)

\* the seed issue records that devpool-issues.json may hold
Issue1 == [number |-> 1, node_id |-> <<"I", "_", "1">>,
           body |-> Text(<<"F", "i", "x">>), userLogin |-> "alice",
           html_url |-> IssueUrl(1)]
Issue12 == [number |-> 12, node_id |-> <<"I", "_", "1", "2">>,
            body |-> Text(<<"B", "u", "g">>), userLogin |-> "alice",
            html_url |-> IssueUrl(12)]
Issue3 == [number |-> 3, node_id |-> <<"I", "_", "3">>,
           body |-> Text(<<>>), userLogin |-> "bob",
           html_url |-> IssueUrl(3)]
Issue4 == [number |-> 4, node_id |-> <<"I", "_", "4">>,
           body |-> NullBody, userLogin |-> "bob",
           html_url |-> IssueUrl(4)]
\* an issue whose opaque node id happens to spell a type marker
Issue5 == [number |-> 5, node_id |-> <<"I", "_", "k", "I", "C", "5">>,
           body |-> Text(<<"D", "o", "c">>), userLogin |-> "erin",
           html_url |-> IssueUrl(5)]

IssuePool == {Issue1, Issue12, Issue3, Issue4, Issue5}

\* the answer of octokit.issues.listComments for an issue number
IssueCommentsOf(n) ==
    CASE n = 1 -> << [id |-> 101, node_id |-> <<"I", "C", "_", "a">>, login |-> "bob"],
                     [id |-> 102, node_id |-> <<"I", "C", "_", "b">>, login |-> "carol"] >>
      [] n = 3 -> << [id |-> 103, node_id |-> <<"I", "C", "_", "c">>, login |-> "carol"] >>
      [] OTHER -> << >>

\* the author of a comment whose account was deleted: GraphQL answers author: null
NoAuthor == "null"

\* the answer of octokit.pulls.list (state: all) with, for each pull request,
\* the thread the GraphQL query returns for its node id
RepoPRs ==
    << [number |-> 7, node_id |-> <<"P", "R", "_", "7">>, title |-> "t7",
        body |-> Text(<<"f", "i", "x", " ", "#", "5">>), login |-> "dave",
        html_url |-> PullUrl(7), repo |-> "repo",
        comments |-> << >>,
        reviewThreads |-> << << [id |-> <<"P", "R", "R", "C", "_", "7">>, login |-> "erin"],
                               [id |-> <<"P", "R", "R", "C", "_", "g">>, login |-> NoAuthor] >> >>],
       [number |-> 8, node_id |-> <<"P", "R", "_", "8">>, title |-> "t8",
        body |-> Text(<<"#", "1", "2">>), login |-> "dave",
        html_url |-> PullUrl(8), repo |-> "repo",
        comments |-> << [id |-> <<"I", "C", "_", "8">>, login |-> "alice"] >>,
        reviewThreads |-> << >>],
       [number |-> 9, node_id |-> <<"P", "R", "_", "9">>, title |-> "t9",
        body |-> NullBody, login |-> "dave",
        html_url |-> PullUrl(9), repo |-> "repo",
        comments |-> << >>,
        reviewThreads |-> << >>],
       [number |-> 10, node_id |-> <<"P", "R", "_", "1", "0">>, title |-> "t10",
        body |-> Text(<<"s", "e", "e", " ">> \o IssueUrl(3)), login |-> "erin",
        html_url |-> PullUrl(10), repo |-> "repo",
        comments |-> << [id |-> <<"I", "C", "_", "9">>, login |-> "bob"] >>,
        reviewThreads |-> << >>] >>

\* the logins for which the request to api.github.com/users/<login> fails
FailingLogins == {"erin"}

\* the numeric id api.github.com/users/<login> answers
UserId(login) ==
    CASE login = "alice" -> 11 [] login = "bob" -> 12 [] login = "carol" -> 13
      [] login = "dave" -> 14 [] OTHER -> 15

(* ------------------------------ fetcher -------------------------------- *)

\* the first element of allData: the issue itself with its REST payload
IssueItem(issue) ==
    [id |-> issue.node_id, issue_id |-> issue.node_id, userLogin |-> issue.userLogin,
     payload |-> [kind |-> "issue", number |-> issue.number, url |-> issue.html_url]]

\* what the forEach callback pushes once fetchPayloadComment has answered
CommentItem(issue, comment) ==
    [id |-> comment.node_id, issue_id |-> issue.node_id, userLogin |-> comment.login,
     payload |-> [kind |-> "comment", number |-> comment.id, url |-> <<>>]]

\* faulty variant: the payload is built without the pull_request block
PrPayloadWithoutPullRequest(pr) ==
    [kind |-> "pull_request", number |-> 0, url |-> <<>>]

\* the payload every item of one pull request carries
PrPayload(pr) ==
    [kind |-> "pull_request", number |-> pr.number, url |-> pr.html_url]

PrBodyItem(issue, pr) ==
    [id |-> pr.node_id, issue_id |-> issue.node_id, userLogin |-> pr.login,
     payload |-> PrPayload(pr)]

PrCommentItem(issue, pr, comment) ==
    [id |-> comment.id, issue_id |-> issue.node_id, userLogin |-> comment.login,
     payload |-> PrPayload(pr)]

\* a callback whose comment has author: null throws on comment.author.login
\* before its push; the callback is async, so the throw rejects a promise
\* nothing awaits and the forEach goes on
Throws(comment) == comment.login = NoAuthor

PushedComments(comments) == SelectSeq(comments, LAMBDA c : ~Throws(c))

\* faulty variant: the callbacks suspend before their push, so that fetchPrData returns
\* the list with the pull request's body alone
FetchPrDataDeferred(issue, pr) == <<PrBodyItem(issue, pr)>>

\* fetchPrData after the GraphQL answer: the callbacks of both forEach loops
\* hold no await, so each push runs inside the forEach call itself
FetchPrData(issue, pr) ==
    LET top == PushedComments(pr.comments)
        threadComments == PushedComments(Flatten(pr.reviewThreads))
    IN  <<PrBodyItem(issue, pr)>>
        \o [i \in 1..Len(top) |-> PrCommentItem(issue, pr, top[i])]
        \o [i \in 1..Len(threadComments) |-> PrCommentItem(issue, pr, threadComments[i])]

\* some callback of fetchPrData throws for this pull request
HasThrowingCallback(pr) ==
    \E c \in Range(pr.comments \o Flatten(pr.reviewThreads)) : Throws(c)

\* the filter of fetchAssociatedPRs over the listed pull requests
IsAssociated(issue, pr) ==
    /\ ~Falsy(pr.body)
    /\ \/ Includes(pr.body.text, <<"#">> \o NumStr(issue.number))
       \/ Includes(pr.body.text, issue.html_url)

FetchAssociatedPRs(issue) ==
    SelectSeq(RepoPRs, LAMBDA pr : IsAssociated(issue, pr))

(* ----------------------------- aggregator ------------------------------ *)

\* faulty variant: only a null body is skipped
SkipSeedNullOnly(issue) == issue.body.isNull

\* the seed issues processIssues skips
SkipSeed(issue) == Falsy(issue.body)

\* faulty variant: the marker is looked for at the start of the identifier only
IsCommentIdPrefix(id) ==
    SubSeq(id, 1, 2) = <<"P", "R">> \/ SubSeq(id, 1, 2) = <<"I", "C">>

\* the routing test on an identifier
IsCommentId(id) == Includes(id, <<"P", "R">>) \/ Includes(id, <<"I", "C">>)

\* faulty variant: issue_id is taken from the item's own identifier
MakeEntryIssueIdFromItem(item, issue, authorId, now) ==
    [id |-> item.id, author_id |-> authorId, created_at |-> now, modified_at |-> now,
     issue_id |-> item.id, payload |-> item.payload]

\* the entry built for an item while `issue` is the seed being processed
MakeEntry(item, issue, authorId, now) ==
    [id |-> item.id, author_id |-> authorId, created_at |-> now, modified_at |-> now,
     issue_id |-> issue.node_id, payload |-> item.payload]

\* faulty variant: the seen-set is not consulted
PushAlways(list, ids, entry) == Append(list, entry)

\* push unless the identifier is in the list's seen-set
PushUnlessSeen(list, ids, entry) ==
    IF entry.id \in ids THEN list ELSE Append(list, entry)

(* ------------------------------- state --------------------------------- *)

VARIABLES
    data,             \* the seed list of devpool-issues.json
    pc,               \* where processIssues is suspended
    idx,              \* index in data of the seed being processed
    allData,          \* the array fetchAllRelatedData builds and returns
    k,                \* index in allData of the item being processed
    prQueue,          \* associated pull requests still to fetch
    pending,          \* outstanding fetchPayloadComment calls of the forEach callbacks
    issueDataList, commentDataList, issueIds, commentIds,
    clock,            \* getCurrentTimestamp
    written,          \* the files saveIssuesToCsv / saveCommentsToCsv were called for
    calledFor,        \* history: seeds an external call was issued for
    failed,           \* history: an external call other than the author lookup
                      \*          failed before the writes
    anyFailure,       \* history: some external call failed, the author lookup included
    processed,        \* history: the items routed, in order
    lastPrData        \* history: the pull request and list of the last fetchPrData return

vars == <<data, pc, idx, allData, k, prQueue, pending, issueDataList, commentDataList,
          issueIds, commentIds, clock, written, calledFor, failed, anyFailure,
          processed, lastPrData>>

\* processIssues is suspended on an external call of its own
MainAwaits == {"issueGet", "listComments", "listPRs", "graphql", "embed", "author"}

\* the states in which the allData of seed idx is still read or extended
ArrayLive == {"listPRs", "graphql", "embed", "author"}

\* the external calls that have been issued and have not completed
Outstanding ==
    pending \cup (IF pc \in MainAwaits THEN {[run |-> idx, c |-> 0]} ELSE {})

SeedLists == UNION { [1..n -> IssuePool] : n \in 0..MaxSeeds }

Init ==
    /\ data \in SeedLists
    /\ pc = "start"
    /\ idx = 0
    /\ allData = <<>>
    /\ k = 0
    /\ prQueue = <<>>
    /\ pending = {}
    /\ issueDataList = <<>>
    /\ commentDataList = <<>>
    /\ issueIds = {}
    /\ commentIds = {}
    /\ clock = 0
    /\ written = {}
    /\ calledFor = {}
    /\ failed = FALSE
    /\ anyFailure = FALSE
    /\ processed = <<>>
    /\ lastPrData = [pr |-> 0, list |-> <<>>]

\* the index of the first seed at or after `from` that is not skipped
NextSeed(from) ==
    LET rest == { j \in from..Len(data) : ~SkipSeed(data[j]) }
    IN  IF rest = {} THEN Len(data) + 1
        ELSE CHOOSE j \in rest : \A j2 \in rest : j <= j2

\* the outer loop of processIssues from seed `from` up to its next suspension:
\* the call of fetchPayloadIssue for the next seed with a body, or the two saves
Advance(from) ==
    LET j == NextSeed(from)
    IN  /\ idx' = j
        /\ allData' = <<>>
        /\ k' = 0
        /\ prQueue' = <<>>
        /\ IF j <= Len(data)
           THEN /\ pc' = "issueGet"
                /\ calledFor' = calledFor \cup {j}
                /\ written' = written
           ELSE /\ pc' = "done"
                /\ calledFor' = calledFor
                /\ written' = {"issues_data.csv", "comments_data.csv"}

\* fetchAllRelatedData returns: the item loop starts on allData[1]
StartItems ==
    /\ pc' = "embed"
    /\ k' = 1

(* ------------------------------ actions -------------------------------- *)

Start ==
    /\ pc = "start"
    /\ Advance(1)
    /\ UNCHANGED <<data, pending, issueDataList, commentDataList, issueIds, commentIds,
                   clock, failed, anyFailure, processed, lastPrData>>

\* fetchPayloadIssue answers: allData is created, listComments is called
IssueGetOk ==
    /\ pc = "issueGet"
    /\ allData' = <<IssueItem(data[idx])>>
    /\ pc' = "listComments"
    /\ UNCHANGED <<data, idx, k, prQueue, pending, issueDataList, commentDataList,
                   issueIds, commentIds, clock, written, calledFor, failed, anyFailure,
                   processed, lastPrData>>

\* listComments answers: forEach calls fetchPayloadComment for every comment
\* without waiting, then pulls.list is called
ListCommentsOk ==
    /\ pc = "listComments"
    /\ pending' = pending \cup
          { [run |-> idx, c |-> i] : i \in 1..Len(IssueCommentsOf(data[idx].number)) }
    /\ pc' = "listPRs"
    /\ UNCHANGED <<data, idx, allData, k, prQueue, issueDataList, commentDataList,
                   issueIds, commentIds, clock, written, calledFor, failed, anyFailure,
                   processed, lastPrData>>

\* pulls.list answers: the first fetchPrDataGraphql is called, or allData returned
ListPRsOk ==
    /\ pc = "listPRs"
    /\ LET prs == FetchAssociatedPRs(data[idx])
       IN  /\ prQueue' = prs
           /\ IF prs = <<>> THEN StartItems ELSE pc' = "graphql" /\ k' = k
    /\ UNCHANGED <<data, idx, allData, pending, issueDataList, commentDataList,
                   issueIds, commentIds, clock, written, calledFor, failed, anyFailure,
                   processed, lastPrData>>

\* the GraphQL query answers: fetchPrData returns and its list is pushed
GraphqlOk ==
    /\ pc = "graphql"
    /\ LET pr == Head(prQueue)
           prData == FetchPrData(data[idx], pr)
       IN  /\ allData' = allData \o prData
           /\ lastPrData' = [pr |-> pr.number, list |-> prData]
           /\ prQueue' = Tail(prQueue)
           /\ IF Tail(prQueue) = <<>> THEN StartItems ELSE pc' = "graphql" /\ k' = k
    /\ UNCHANGED <<data, idx, pending, issueDataList, commentDataList, issueIds,
                   commentIds, clock, written, calledFor, failed, anyFailure, processed>>

\* a callback of fetchPrData has thrown and the runtime ends the process on the
\* unhandled rejection instead of warning
PrCallbackCrash ==
    /\ pc = "graphql"
    /\ HasThrowingCallback(Head(prQueue))
    /\ pc' = "crashed"
    /\ UNCHANGED <<data, idx, allData, k, prQueue, pending, issueDataList,
                   commentDataList, issueIds, commentIds, clock, written, calledFor,
                   failed, anyFailure, processed, lastPrData>>

\* a fetchPayloadComment answers: its callback pushes onto the allData of its
\* own seed, which nothing reads any more once that seed's item loop has ended
CommentPayloadOk(call) ==
    /\ call \in pending
    /\ pc # "crashed"
    /\ pending' = pending \ {call}
    /\ allData' = IF call.run = idx /\ pc \in ArrayLive
                  THEN Append(allData,
                              CommentItem(data[idx], IssueCommentsOf(data[idx].number)[call.c]))
                  ELSE allData
    /\ UNCHANGED <<data, pc, idx, k, prQueue, issueDataList, commentDataList, issueIds,
                   commentIds, clock, written, calledFor, failed, anyFailure, processed,
                   lastPrData>>

\* a fetchPayloadComment fails: the callback's promise is rejected and nothing
\* awaits it.  The runtime only warns about the unhandled rejection ...
CommentPayloadFailWarn(call) ==
    /\ call \in pending
    /\ pc # "crashed"
    /\ pending' = pending \ {call}
    /\ failed' = (failed \/ written = {})
    /\ anyFailure' = TRUE
    /\ UNCHANGED <<data, pc, idx, allData, k, prQueue, issueDataList, commentDataList,
                   issueIds, commentIds, clock, written, calledFor, processed,
                   lastPrData>>

\* ... or it ends the process
CommentPayloadFailCrash(call) ==
    /\ call \in pending
    /\ pc # "crashed"
    /\ pending' = pending \ {call}
    /\ failed' = (failed \/ written = {})
    /\ anyFailure' = TRUE
    /\ pc' = "crashed"
    /\ UNCHANGED <<data, idx, allData, k, prQueue, issueDataList, commentDataList,
                   issueIds, commentIds, clock, written, calledFor, processed,
                   lastPrData>>

\* a call processIssues is suspended on (other than the author lookup) fails:
\* the rejection reaches processIssues().catch(console.error)
MainCallFails ==
    /\ pc \in MainAwaits \ {"author"}
    /\ pc' = "caught"
    /\ failed' = TRUE
    /\ anyFailure' = TRUE
    /\ UNCHANGED <<data, idx, allData, k, prQueue, pending, issueDataList,
                   commentDataList, issueIds, commentIds, clock, written, calledFor,
                   processed, lastPrData>>

\* the embedding request answers: fetchAuthorId is called
EmbedOk ==
    /\ pc = "embed"
    /\ pc' = "author"
    /\ UNCHANGED <<data, idx, allData, k, prQueue, pending, issueDataList,
                   commentDataList, issueIds, commentIds, clock, written, calledFor,
                   failed, anyFailure, processed, lastPrData>>

\* fetchAuthorId returns authorId: the entry is built and routed, then the
\* for-of loop reads the array's length again
Route(authorId) ==
    LET item == allData[k]
        entry == MakeEntry(item, data[idx], authorId, clock + 1)
    IN  /\ clock' = clock + 1
        /\ processed' = Append(processed, [id |-> item.id, run |-> idx, at |-> clock + 1])
        /\ IF IsCommentId(item.id)
           THEN /\ commentDataList' = PushUnlessSeen(commentDataList, commentIds, entry)
                /\ commentIds' = commentIds \cup {item.id}
                /\ UNCHANGED <<issueDataList, issueIds>>
           ELSE /\ issueDataList' = PushUnlessSeen(issueDataList, issueIds, entry)
                /\ issueIds' = issueIds \cup {item.id}
                /\ UNCHANGED <<commentDataList, commentIds>>
        /\ IF k < Len(allData)
           THEN /\ k' = k + 1
                /\ pc' = "embed"
                /\ UNCHANGED <<idx, allData, prQueue, written, calledFor>>
           ELSE Advance(idx + 1)

AuthorOk ==
    /\ pc = "author"
    /\ allData[k].userLogin \notin FailingLogins
    /\ Route(UserId(allData[k].userLogin))
    /\ UNCHANGED <<data, pending, failed, anyFailure, lastPrData>>

\* the lookup fails: fetchAuthorId catches the error and returns -1
AuthorFails ==
    /\ pc = "author"
    /\ allData[k].userLogin \in FailingLogins
    /\ anyFailure' = TRUE
    /\ Route(-1)
    /\ UNCHANGED <<data, pending, failed, lastPrData>>

CommentPayloadAnswers == \E call \in pending : CommentPayloadOk(call)

CommentPayloadRejectedWarned == \E call \in pending : CommentPayloadFailWarn(call)

CommentPayloadRejectedCrashes == \E call \in pending : CommentPayloadFailCrash(call)

Next ==
    \/ Start
    \/ IssueGetOk
    \/ ListCommentsOk
    \/ ListPRsOk
    \/ GraphqlOk
    \/ PrCallbackCrash
    \/ CommentPayloadAnswers
    \/ CommentPayloadRejectedWarned
    \/ CommentPayloadRejectedCrashes
    \/ MainCallFails
    \/ EmbedOk
    \/ AuthorOk
    \/ AuthorFails

Spec == Init /\ [][Next]_vars

(* ------------------------------ claims --------------------------------- *)

Ids(list) == { list[i].id : i \in 1..Len(list) }

Rows == Range(issueDataList) \cup Range(commentDataList)

NoDuplicateId(list) ==
    \A i, j \in 1..Len(list) : list[i].id = list[j].id => i = j

\* the identifier spells "PR" or "IC" somewhere
HasMarker(id) ==
    \E i \in 1..(Len(id) - 1) :
        \/ id[i] = "P" /\ id[i + 1] = "R"
        \/ id[i] = "I" /\ id[i + 1] = "C"

\* the seed has a body that is neither null nor the empty string
HasBody(issue) == ~issue.body.isNull /\ Len(issue.body.text) > 0

\* C1: no identifier occurs twice in issueDataList or in commentDataList, the
\* two lists hold one row per identifier processed, and the row kept for an
\* identifier is the one built from the first item processed with it.
C1_DedupFirstWins ==
    /\ NoDuplicateId(issueDataList)
    /\ NoDuplicateId(commentDataList)
    /\ Len(issueDataList) + Len(commentDataList)
          = Cardinality({ processed[i].id : i \in 1..Len(processed) })
    /\ \A e \in Rows : \A i \in 1..Len(processed) :
          processed[i].id = e.id => e.created_at <= processed[i].at

\* C1 witness: the run has ended and some identifier was processed twice.
C1_Witness ==
    /\ pc = "done"
    /\ \E i, j \in 1..Len(processed) : i < j /\ processed[i].id = processed[j].id

\* C2: every processed item's identifier is in exactly one list: in
\* commentDataList alone when it contains "PR" or "IC", in issueDataList alone
\* otherwise.
C2_RoutedByMarker ==
    \A i \in 1..Len(processed) :
        LET id == processed[i].id
        IN  IF HasMarker(id)
            THEN id \in Ids(commentDataList) /\ id \notin Ids(issueDataList)
            ELSE id \in Ids(issueDataList) /\ id \notin Ids(commentDataList)

\* C2 witness: the run has ended having routed a seed issue without a marker,
\* a seed issue whose node id contains a marker, and a pull-request item.
C2_Witness ==
    /\ pc = "done"
    /\ \E i, j, m \in 1..Len(processed) :
          /\ ~HasMarker(processed[i].id)
          /\ HasMarker(processed[j].id) /\ processed[j].id = data[processed[j].run].node_id
          /\ HasMarker(processed[m].id) /\ processed[m].id # data[processed[m].run].node_id

\* the scenario of C3: one seed with a body, no issue comments, one associated
\* pull request with one top-level comment and no review thread; the
\* identifiers carry their type markers
C3_Scenario ==
    /\ Len(data) = 1
    /\ HasBody(data[1])
    /\ ~HasMarker(data[1].node_id)
    /\ IssueCommentsOf(data[1].number) = <<>>
    /\ LET prs == FetchAssociatedPRs(data[1])
       IN  /\ Len(prs) = 1
           /\ Len(prs[1].comments) = 1
           /\ ~Throws(prs[1].comments[1])
           /\ prs[1].reviewThreads = <<>>
           /\ HasMarker(prs[1].node_id)
           /\ HasMarker(prs[1].comments[1].id)

ExpectedOrder(issue) ==
    LET cs == IssueCommentsOf(issue.number)
        prs == FetchAssociatedPRs(issue)
        PrIds(pr) == <<pr.node_id>>
                     \o [i \in 1..Len(pr.comments) |-> pr.comments[i].id]
                     \o [i \in 1..Len(Flatten(pr.reviewThreads)) |->
                            Flatten(pr.reviewThreads)[i].id]
    IN  <<issue.node_id>>
        \o [i \in 1..Len(cs) |-> cs[i].node_id]
        \o Flatten([i \in 1..Len(prs) |-> PrIds(prs[i])])

PositionIn(seq, x) == CHOOSE i \in 1..Len(seq) : seq[i] = x

\* C4 as stated: the items of allData stand in the order issue, issue comments
\* as listed, pull-request items, whatever the order in which the calls complete.
C4_Original ==
    pc \in ArrayLive =>
        \A i, j \in 1..Len(allData) :
            i < j => PositionIn(ExpectedOrder(data[idx]), allData[i].id)
                       < PositionIn(ExpectedOrder(data[idx]), allData[j].id)

\* C5 as stated: once an external call other than the author lookup has failed
\* before the writes, the run is in the catch of processIssues and no file is
\* written; files are written only after all seeds were processed without such
\* a failure.
C5_Original ==
    /\ failed => (pc = "caught" /\ written = {})
    /\ written # {} => (idx > Len(data) /\ ~failed)

\* C6 as stated: at most one external call is outstanding.
C6_Original == Cardinality(Outstanding) <= 1

\* C7: for a seed whose body is null or empty no external call is issued, no
\* item is processed, and its node id is in a list only if the processing of
\* another seed put it there.
C7_EmptyBodySkipped ==
    \A i \in 1..Len(data) :
        ~HasBody(data[i]) =>
            /\ i \notin calledFor
            /\ \A m \in 1..Len(processed) : processed[m].run # i
            /\ data[i].node_id \in Ids(issueDataList) \cup Ids(commentDataList) =>
                  \E m \in 1..Len(processed) :
                      /\ processed[m].id = data[i].node_id
                      /\ processed[m].run # i
                      /\ HasBody(data[processed[m].run])

\* C7 witness: the run has ended, a seed without a body was in the list, and a
\* seed after it was fetched and processed.
C7_Witness ==
    /\ pc = "done"
    /\ \E i, j \in 1..Len(data) :
          /\ i < j
          /\ ~HasBody(data[i])
          /\ j \in calledFor
          /\ \E m \in 1..Len(processed) : processed[m].run = j

\* every identifier of a comment, pull request or review comment on GitHub
SubItemIds ==
    UNION { { IssueCommentsOf(is.number)[i].node_id :
                i \in 1..Len(IssueCommentsOf(is.number)) } : is \in IssuePool }
    \cup UNION { {RepoPRs[p].node_id}
                 \cup { c.id : c \in Range(RepoPRs[p].comments
                                           \o Flatten(RepoPRs[p].reviewThreads)) } :
                 p \in 1..Len(RepoPRs) }

\* C8: the issue_id of every row is the node id of the seed during whose
\* processing the row was added, the first seed the identifier was processed
\* for, and never a comment's, pull request's or review comment's identifier.
C8_IssueIdIsSeed ==
    \A e \in Rows :
        /\ \E m \in 1..Len(processed) :
              /\ processed[m].id = e.id
              /\ processed[m].at = e.created_at
              /\ \A n \in 1..Len(processed) : processed[n].id = e.id => m <= n
              /\ e.issue_id = data[processed[m].run].node_id
        /\ e.issue_id \in { data[i].node_id : i \in 1..Len(data) }
        /\ e.issue_id \notin SubItemIds

\* C8 witness: the run has ended and one pull-request item was processed for
\* two different seeds.
C8_Witness ==
    /\ pc = "done"
    /\ \E i, j \in 1..Len(processed) :
          /\ processed[i].id = processed[j].id
          /\ data[processed[i].run].node_id # data[processed[j].run].node_id
          /\ processed[i].id # data[processed[i].run].node_id

\* the comments of a pull request whose callback reaches its push
AuthoredComments(pr) ==
    { c \in Range(pr.comments \o Flatten(pr.reviewThreads)) : c.login # NoAuthor }

ReturnedPr == RepoPRs[CHOOSE p \in 1..Len(RepoPRs) : RepoPRs[p].number = lastPrData.pr]

C10_Original ==
    (pc = "done" /\ ~anyFailure) =>
        \A i \in 1..Len(data) :
            HasBody(data[i]) =>
                \A c \in Range(IssueCommentsOf(data[i].number)) :
                    c.node_id \in Ids(commentDataList)

====
